---------------------------- MODULE Spec2Model ----------------------------
(***************************************************************************)
(* Consensus codec of transaction_decoder_22/src/transaction.rs: the       *)
(* primitive little-endian codecs, CompactSize, the hex String fields, the *)
(* witness section, the Transaction decoder with its legacy / segwit       *)
(* branch, and the legacy-only encoder that feeds Transaction::txid.       *)
(*                                                                         *)
(* Numbers.  TLC's integers are 32 bits wide, the program's are up to 64,  *)
(* so a u32 is a pair and a u64 a 4-tuple of 16-bit limbs, most            *)
(* significant limb first; u8 and u16 are plain integers.  to_le_bytes and *)
(* from_le_bytes are therefore real conversions between limbs and bytes.   *)
(* A byte buffer is a sequence of integers 0..255; a String is a sequence  *)
(* of one-character strings.                                               *)
(***************************************************************************)
EXTENDS Integers, Sequences, FiniteSets, TLC

VARIABLES
    tc,         \* the test case: a constructed Transaction or a byte string on the wire
    buf,        \* the byte slice handed to Transaction::consensus_decode
    pos,        \* the reader's cursor: bytes of buf consumed so far
    pc,         \* position inside Transaction::consensus_decode / Transaction::txid
    memLimit,   \* the largest request the allocator can serve (environment)
    version,    \* decoded so far: version
    inputs,     \* decoded so far: inputs
    outputs,    \* decoded so far: outputs
    lock_time,  \* decoded so far: lock_time
    flag,       \* the segwit flag byte once read, else -1
    path,       \* "none" | "legacy" | "segwit"
    todo,       \* iterations left in the running Vec<TxIn> / Vec<TxOut> loop (u64)
    widx,       \* index of the next input to receive a witness
    result,     \* outcome of consensus_decode: "none", "ok", "io", "parse", "flag", ...
    allocs,     \* every allocation requested so far
    txid_data,  \* the buffer Transaction::txid hashes
    cs,         \* the CompactSize codec exercised on its own
    reads,      \* history: every read step of consensus_decode, with its cursor span
    txid,       \* the Txid returned by the first call of Transaction::txid
    json,       \* the field tree Serialize for Transaction hands to the serializer
    d20         \* transaction_decoder_20: the state of run() on its own byte slice

vars == <<tc, buf, pos, pc, memLimit, version, inputs, outputs, lock_time,
          flag, path, todo, widx, result, allocs, txid_data, cs, reads, txid,
          json, d20>>

-----------------------------------------------------------------------------
(* Limb arithmetic for u32 / u64 values.                                   *)

LimbBase == 65536

ByteBase == 256

U64Zero == <<0, 0, 0, 0>>

U64Of(n) == <<0, 0, n \div LimbBase, n % LimbBase>>

U32Of(n) == <<n \div LimbBase, n % LimbBase>>

\* v <= w on 4-limb numbers.
U64Le(v, w) ==
    \/ v[1] < w[1]
    \/ v[1] = w[1] /\ v[2] < w[2]
    \/ v[1] = w[1] /\ v[2] = w[2] /\ v[3] < w[3]
    \/ v[1] = w[1] /\ v[2] = w[2] /\ v[3] = w[3] /\ v[4] <= w[4]

\* v - 1 for v > 0.
U64Pred(v) ==
    IF v[4] > 0 THEN <<v[1], v[2], v[3], v[4] - 1>>
    ELSE IF v[3] > 0 THEN <<v[1], v[2], v[3] - 1, LimbBase - 1>>
    ELSE IF v[2] > 0 THEN <<v[1], v[2] - 1, LimbBase - 1, LimbBase - 1>>
    ELSE <<v[1] - 1, LimbBase - 1, LimbBase - 1, LimbBase - 1>>

\* A u64 small enough to be used as an index into a buffer of the model.
FitsInt(v) == v[1] = 0 /\ v[2] = 0 /\ v[3] < 16384

ToInt(v) == v[3] * LimbBase + v[4]

-----------------------------------------------------------------------------
(* Primitive codec: to_le_bytes / from_le_bytes.                           *)

Le16(x) == <<x % ByteBase, x \div ByteBase>>

u16_to_le_bytes(x) == Le16(x)

u32_to_le_bytes(x) == Le16(x[2]) \o Le16(x[1])

u64_to_le_bytes(x) == Le16(x[4]) \o Le16(x[3]) \o Le16(x[2]) \o Le16(x[1])

u16_from_le_bytes(b) == b[1] + ByteBase * b[2]


\* A slip: from_be_bytes instead of from_le_bytes.
u32_from_be_bytes(b) == <<b[2] + ByteBase * b[1], b[4] + ByteBase * b[3]>>

u32_from_le_bytes(b) == <<b[3] + ByteBase * b[4], b[1] + ByteBase * b[2]>>

u64_from_le_bytes(b) ==
    <<b[7] + ByteBase * b[8], b[5] + ByteBase * b[6],
      b[3] + ByteBase * b[4], b[1] + ByteBase * b[2]>>

\* `x as u8`, `x as u16`, `x as u32`, `x as u64` on a u64 / narrower value.
u64_as_u8(x) == x[4] % ByteBase

u64_as_u16(x) == x[4]

u64_as_u32(x) == <<x[3], x[4]>>

u8_as_u64(n) == <<0, 0, 0, n>>

u16_as_u64(x) == <<0, 0, 0, x>>

u32_as_u64(x) == <<0, 0, x[1], x[2]>>

-----------------------------------------------------------------------------
(* hex::encode / hex::decode, behind the String fields of TxIn and TxOut.  *)

HexLower == <<"0", "1", "2", "3", "4", "5", "6", "7", "8", "9",
              "a", "b", "c", "d", "e", "f">>

HexUpper == <<"A", "B", "C", "D", "E", "F">>

\* hex::encode: two lower-case digits per byte, high nibble first.
hex_encode(bytes) ==
    [i \in 1..(2 * Len(bytes)) |->
        LET byte == bytes[(i + 1) \div 2]
        IN  HexLower[(IF i % 2 = 1 THEN byte \div 16 ELSE byte % 16) + 1]]

\* The value of one hex digit, either case; -1 for any other character.
HexVal(c) ==
    IF \E i \in 1..16 : HexLower[i] = c
    THEN (CHOOSE i \in 1..16 : HexLower[i] = c) - 1
    ELSE IF \E i \in 1..6 : HexUpper[i] = c
    THEN (CHOOSE i \in 1..6 : HexUpper[i] = c) + 9
    ELSE -1

\* hex::decode: Err on an odd length or on a character that is no hex digit.
hex_decode(s) ==
    IF Len(s) % 2 = 1 \/ \E i \in 1..Len(s) : HexVal(s[i]) = -1
    THEN [ok |-> FALSE, bytes |-> <<>>]
    ELSE [ok |-> TRUE,
          bytes |-> [i \in 1..(Len(s) \div 2) |->
                        16 * HexVal(s[2 * i - 1]) + HexVal(s[2 * i])]]

-----------------------------------------------------------------------------
(* Encodable.  An encoder takes the writer's contents w (a Vec<u8>) and    *)
(* returns [st, w, n]: st is "ok" or "panic", w the writer afterwards, n   *)
(* the usize the Rust function returns.  Write for Vec<u8> appends the     *)
(* whole slice and returns its length.                                     *)

EncOk(w, n) == [st |-> "ok", w |-> w, n |-> n]

EncPanic(w) == [st |-> "panic", w |-> w, n |-> 0]

\* w.write(slice) on a Vec<u8>.
vec_write(w, slice) == EncOk(w \o slice, Len(slice))

enc_u8(w, x) == vec_write(w, <<x>>)


\* A slip: to_be_bytes instead of to_le_bytes.
enc_u16_be(w, x) == vec_write(w, <<x \div ByteBase, x % ByteBase>>)

enc_u16(w, x) == vec_write(w, u16_to_le_bytes(x))

enc_u32(w, x) == vec_write(w, u32_to_le_bytes(x))

enc_u64(w, x) == vec_write(w, u64_to_le_bytes(x))

enc_bytes32(w, x) == vec_write(w, x)


\* A slip in the first match arm: 0..=0xFD instead of 0..=0xFC.
CompactSizeArm_off(v) ==
    IF U64Le(v, <<0, 0, 0, 253>>) THEN 1
    ELSE IF U64Le(v, <<0, 0, 0, 65535>>) THEN 2
    ELSE IF U64Le(v, <<0, 0, 65535, 65535>>) THEN 3
    ELSE 4

\* The match arms of CompactSize::consensus_encode.
CompactSizeArm(v) ==
    IF U64Le(v, <<0, 0, 0, 252>>) THEN 1
    ELSE IF U64Le(v, <<0, 0, 0, 65535>>) THEN 2
    ELSE IF U64Le(v, <<0, 0, 65535, 65535>>) THEN 3
    ELSE 4

\* A slip: the 0xFD arm taken for every value.
enc_CompactSize_wide(w, v) ==
    EncOk(enc_u16(vec_write(w, <<253>>).w, u64_as_u16(v)).w, 3)

enc_CompactSize(w, v) ==
    CASE CompactSizeArm(v) = 1 -> EncOk(enc_u8(w, u64_as_u8(v)).w, 1)
      [] CompactSizeArm(v) = 2 ->
            EncOk(enc_u16(vec_write(w, <<253>>).w, u64_as_u16(v)).w, 3)
      [] CompactSizeArm(v) = 3 ->
            EncOk(enc_u32(vec_write(w, <<254>>).w, u64_as_u32(v)).w, 5)
      [] OTHER ->
            EncOk(enc_u64(vec_write(w, <<255>>).w, v).w, 9)

\* `len += x.consensus_encode(w)?` after the calls that produced r.
Then(r, x, Enc(_, _)) ==
    IF r.st # "ok" THEN r ELSE [Enc(r.w, x) EXCEPT !.n = @ + r.n]

String_write(w, b) ==
    IF ~b.ok THEN EncPanic(w)
    ELSE Then(enc_CompactSize(w, U64Of(Len(b.bytes))), b.bytes, vec_write)

\* String: hex::decode(self).expect(..), CompactSize(len), the bytes.
enc_String(w, s) == String_write(w, hex_decode(s))

enc_Version(w, x) == enc_u32(w, x)

enc_Txid(w, x) == enc_bytes32(w, x)

enc_Amount(w, x) == enc_u64(w, x)


\* A slip: the witness stack's item count written behind the sequence.
enc_TxIn_witness(w, txin) ==
    Then(Then(Then(Then(enc_Txid(w, txin.previous_txid),
                        txin.previous_vout, enc_u32),
                   txin.script_sig, enc_String),
              txin.sequence, enc_u32),
         Len(txin.witness), enc_u8)

\* TxIn: previous_txid, previous_vout, script_sig, sequence; no witness.
enc_TxIn(w, txin) ==
    Then(Then(Then(enc_Txid(w, txin.previous_txid),
                   txin.previous_vout, enc_u32),
              txin.script_sig, enc_String),
         txin.sequence, enc_u32)


\* A slip: script_pubkey written before amount.
enc_TxOut_swapped(w, txout) ==
    Then(enc_String(w, txout.script_pubkey), txout.amount, enc_Amount)

\* TxOut: amount, script_pubkey.
enc_TxOut(w, txout) ==
    Then(enc_Amount(w, txout.amount), txout.script_pubkey, enc_String)

\* for tx in self.iter() { len += tx.consensus_encode(w)?; }
RECURSIVE enc_TxInLoop(_, _, _)
enc_TxInLoop(r, ins, i) ==
    IF i > Len(ins) \/ r.st # "ok" THEN r
    ELSE enc_TxInLoop(Then(r, ins[i], enc_TxIn), ins, i + 1)

RECURSIVE enc_TxOutLoop(_, _, _)
enc_TxOutLoop(r, outs, i) ==
    IF i > Len(outs) \/ r.st # "ok" THEN r
    ELSE enc_TxOutLoop(Then(r, outs[i], enc_TxOut), outs, i + 1)

\* A slip: the marker and flag bytes written when an input carries a witness.
enc_VecTxIn_segwit(w, ins) ==
    IF \E i \in 1..Len(ins) : Len(ins[i].witness) > 0
    THEN enc_TxInLoop(Then(vec_write(w, <<0, 1>>), U64Of(Len(ins)), enc_CompactSize),
                      ins, 1)
    ELSE enc_TxInLoop(enc_CompactSize(w, U64Of(Len(ins))), ins, 1)

\* Vec<TxIn>: CompactSize(self.len()), then every TxIn.
enc_VecTxIn(w, ins) == enc_TxInLoop(enc_CompactSize(w, U64Of(Len(ins))), ins, 1)

\* Vec<TxOut>: CompactSize(self.len()), then every TxOut.
enc_VecTxOut(w, outs) == enc_TxOutLoop(enc_CompactSize(w, U64Of(Len(outs))), outs, 1)

\* The four encode calls of Transaction::txid, each unwrapped, into a fresh Vec.
txid_encode(tx) ==
    Then(Then(Then(enc_Version(<<>>, tx.version),
                   tx.inputs, enc_VecTxIn),
              tx.outputs, enc_VecTxOut),
         tx.lock_time, enc_u32)

-----------------------------------------------------------------------------
(* The identifier and the presentation.  sha2's digest is kept as a term   *)
(* over its preimage: the same bytes give the same digest, and nothing     *)
(* else is known about it.                                                 *)

\* Witness::new()
WitnessNew == <<>>

witness_is_empty(w) == Len(w) = 0

Sha256(data) == [sha256 |-> data]

\* Txid::new: the digest of the digest of data.
Txid_new(data) == Sha256(Sha256(data))

NoTxid == [st |-> "none", id |-> Txid_new(<<>>)]

\* Txid::new(txid_data), once the four unwrap()s have passed.
Txid_of(r) ==
    IF r.st = "ok" THEN [st |-> "ok", id |-> Txid_new(r.w)]
    ELSE [st |-> "panic", id |-> Txid_new(<<>>)]

\* Transaction::txid
Transaction_txid(tx) == Txid_of(txid_encode(tx))

\* bytes.reverse() on the clone.
Reverse(bytes) == [i \in 1..Len(bytes) |-> bytes[Len(bytes) + 1 - i]]

\* A slip: the stored bytes rendered in storage order.
Serialize_Txid_forward(id) == hex_encode(id)

\* Serialize for Txid: clone, reverse, hex::encode.
Serialize_Txid(id) == hex_encode(Reverse(id))

\* Serialize for Witness: a sequence of hex::encode(elem).
Serialize_Witness(wit) == [i \in 1..Len(wit) |-> hex_encode(wit[i])]

Field(name, value) == [name |-> name, value |-> value]

\* A slip: scriptSig always rendered, txinwitness added behind it.
Serialize_TxIn_both(txin) ==
    <<Field("txid", Serialize_Txid(txin.previous_txid)),
      Field("vout", txin.previous_vout),
      Field("scriptSig", txin.script_sig)>>
    \o (IF witness_is_empty(txin.witness) THEN <<>>
        ELSE <<Field("txinwitness", Serialize_Witness(txin.witness))>>)
    \o <<Field("sequence", txin.sequence)>>

\* Serialize for TxIn: txid, vout, scriptSig or txinwitness, sequence.
Serialize_TxIn(txin) ==
    <<Field("txid", Serialize_Txid(txin.previous_txid)),
      Field("vout", txin.previous_vout),
      IF witness_is_empty(txin.witness)
      THEN Field("scriptSig", txin.script_sig)
      ELSE Field("txinwitness", Serialize_Witness(txin.witness)),
      Field("sequence", txin.sequence)>>

\* Serialize for Transaction: transaction_id (a fresh txid() call, its digest
\* kept as a term), version, inputs, outputs, locktime.
Serialize_Transaction(tx) ==
    <<Field("transaction_id", Transaction_txid(tx)),
      Field("version", tx.version),
      Field("inputs", [i \in 1..Len(tx.inputs) |-> Serialize_TxIn(tx.inputs[i])]),
      Field("outputs", tx.outputs),
      Field("locktime", tx.lock_time)>>

-----------------------------------------------------------------------------
(* Allocation.  vec![0; len as usize] and Vec::with_capacity(len as usize) *)
(* ask the allocator for len * unit bytes before a single byte is read.    *)
(* A request above isize::MAX bytes panics ("capacity overflow"); one the  *)
(* allocator cannot serve aborts the process; a capacity of 0 allocates    *)
(* nothing.                                                                *)

\* size_of::<TxIn>(): [u8; 32] + u32 + String + u32 + Vec<Vec<u8>>.
SizeOfTxIn == 88

\* size_of::<TxOut>(): u64 + String.
SizeOfTxOut == 32

SizeOfU8 == 1

\* n * unit as five limbs, the first being the carry out of 64 bits.
U64Mul(n, unit) ==
    LET p4 == n[4] * unit
        p3 == n[3] * unit + p4 \div LimbBase
        p2 == n[2] * unit + p3 \div LimbBase
        p1 == n[1] * unit + p2 \div LimbBase
    IN  <<p1 \div LimbBase, p1 % LimbBase, p2 % LimbBase, p3 % LimbBase, p4 % LimbBase>>

AllocOutcome(n, unit, lim) ==
    LET m == U64Mul(n, unit)
    IN  IF n = U64Zero THEN "ok"
        ELSE IF m[1] > 0 \/ m[2] >= 32768 THEN "panic"
        ELSE IF ~U64Le(<<m[2], m[3], m[4], m[5]>>, lim) THEN "abort"
        ELSE "ok"

\* The record kept of one request: len elements of unit bytes, asked for with
\* rem bytes of input left unread.
AllocReq(n, unit, rem) == [len |-> n, unit |-> unit, rem |-> rem]

\* Vec::with_capacity(len as usize) for elements of unit bytes.
with_capacity(n, unit, rem, lim) ==
    [st |-> AllocOutcome(n, unit, lim), al |-> <<AllocReq(n, unit, rem)>>]

-----------------------------------------------------------------------------
(* Decodable.  A decoder takes the buffer b, the cursor p (bytes consumed) *)
(* and returns [st, v, pos, al]: st is "ok", "io" (Error::Io from          *)
(* read_exact), "panic" or "abort"; v the value; pos the cursor afterwards;*)
(* al the allocations it requested.                                        *)

DecOk(v, p, al) == [st |-> "ok", v |-> v, pos |-> p, al |-> al]

DecFail(st, p, al) == [st |-> st, v |-> <<>>, pos |-> p, al |-> al]

\* `?` on r, then Ok(F(value)).
MapOk(r, F(_)) == IF r.st # "ok" THEN r ELSE DecOk(F(r.v), r.pos, r.al)

\* A slip: the bytes are copied but the cursor stays where it was.
read_exact_peek(b, p, n) ==
    IF p + n <= Len(b) THEN DecOk(SubSeq(b, p + 1, p + n), p, <<>>)
    ELSE DecFail("io", p, <<>>)

\* reader.read_exact(&mut buffer) with a buffer of n bytes.
read_exact(b, p, n) ==
    IF p + n <= Len(b) THEN DecOk(SubSeq(b, p + 1, p + n), p + n, <<>>)
    ELSE DecFail("io", p, <<>>)

FirstByte(bytes) == bytes[1]

dec_u8(b, p) == MapOk(read_exact(b, p, 1), FirstByte)

dec_u16(b, p) == MapOk(read_exact(b, p, 2), u16_from_le_bytes)

dec_u32(b, p) == MapOk(read_exact(b, p, 4), u32_from_le_bytes)

dec_u64(b, p) == MapOk(read_exact(b, p, 8), u64_from_le_bytes)

dec_Version(b, p) == dec_u32(b, p)

dec_Txid(b, p) == read_exact(b, p, 32)


\* A decoder that insists on the narrowest form, as a strict one would.
CompactSize_match_strict(b, n) ==
    IF n.st # "ok" THEN n
    ELSE IF n.v = 255 THEN dec_u64(b, n.pos)
    ELSE IF n.v = 254 THEN MapOk(dec_u32(b, n.pos), u32_as_u64)
    ELSE IF n.v = 253 THEN
        IF n.pos + 2 <= Len(b) /\ b[n.pos + 2] = 0 /\ b[n.pos + 1] < 253
        THEN DecFail("parse", n.pos, <<>>)
        ELSE MapOk(dec_u16(b, n.pos), u16_as_u64)
    ELSE DecOk(u8_as_u64(n.v), n.pos, <<>>)

\* match n { 0xFF => u64, 0xFE => u32, 0xFD => u16, n => n }
CompactSize_match(b, n) ==
    IF n.st # "ok" THEN n
    ELSE IF n.v = 255 THEN dec_u64(b, n.pos)
    ELSE IF n.v = 254 THEN MapOk(dec_u32(b, n.pos), u32_as_u64)
    ELSE IF n.v = 253 THEN MapOk(dec_u16(b, n.pos), u16_as_u64)
    ELSE DecOk(u8_as_u64(n.v), n.pos, <<>>)

\* CompactSize: one byte, then 8 / 4 / 2 more for 0xFF / 0xFE / 0xFD.
dec_CompactSize(b, p) == CompactSize_match(b, dec_u8(b, p))

\* reader.read_exact(&mut buffer) into the bytes just allocated.
read_vec_fill(b, p, len, req) ==
    IF FitsInt(len) /\ p + ToInt(len) <= Len(b)
    THEN DecOk(SubSeq(b, p + 1, p + ToInt(len)), p + ToInt(len), req)
    ELSE DecFail("io", p, req)

read_vec_alloc(b, p, len, out, req) ==
    IF out # "ok" THEN DecFail(out, p, req) ELSE read_vec_fill(b, p, len, req)

\* let mut buffer = vec![0; len as usize]; reader.read_exact(&mut buffer)
read_vec(b, p, len, lim) ==
    read_vec_alloc(b, p, len, AllocOutcome(len, SizeOfU8, lim),
                   <<AllocReq(len, SizeOfU8, Len(b) - p)>>)

String_read(b, lim, len) ==
    IF len.st # "ok" THEN len
    ELSE MapOk(read_vec(b, len.pos, len.v, lim), hex_encode)

\* String: CompactSize length, that many bytes, hex::encode.
dec_String(b, p, lim) == String_read(b, lim, dec_CompactSize(b, p))

TxIn_build(r1, r2, r3, r4) ==
    IF r4.st # "ok" THEN DecFail(r4.st, r4.pos, r3.al)
    ELSE DecOk([previous_txid |-> r1.v, previous_vout |-> r2.v,
                script_sig |-> r3.v, sequence |-> r4.v,
                witness |-> WitnessNew], r4.pos, r3.al)

TxIn_sequence(b, r1, r2, r3) ==
    IF r3.st # "ok" THEN r3 ELSE TxIn_build(r1, r2, r3, dec_u32(b, r3.pos))

TxIn_script(b, lim, r1, r2) ==
    IF r2.st # "ok" THEN r2 ELSE TxIn_sequence(b, r1, r2, dec_String(b, r2.pos, lim))

TxIn_vout(b, lim, r1) ==
    IF r1.st # "ok" THEN r1 ELSE TxIn_script(b, lim, r1, dec_u32(b, r1.pos))

\* TxIn: previous_txid, previous_vout, script_sig, sequence, Witness::new().
dec_TxIn(b, p, lim) == TxIn_vout(b, lim, dec_Txid(b, p))

\* Amount::from_sat
amount_from_sat(x) == x

TxOut_build(r1, r2) ==
    IF r2.st # "ok" THEN r2
    ELSE DecOk([amount |-> amount_from_sat(r1.v), script_pubkey |-> r2.v],
               r2.pos, r2.al)

TxOut_script(b, lim, r1) ==
    IF r1.st # "ok" THEN r1 ELSE TxOut_build(r1, dec_String(b, r1.pos, lim))

\* TxOut: amount, script_pubkey.
dec_TxOut(b, p, lim) == TxOut_script(b, lim, dec_u64(b, p))

\* The body of Witness::consensus_decode's loop: a CompactSize length, the
\* buffer, read_exact, push.  r is what the passes before it left: the items
\* so far, the cursor and the allocations.
WitnessItem_push(r, item) ==
    IF item.st # "ok" THEN DecFail(item.st, item.pos, r.al \o item.al)
    ELSE DecOk(Append(r.v, item.v), item.pos, r.al \o item.al)

WitnessItem_read(b, lim, r, len) ==
    IF len.st # "ok" THEN DecFail(len.st, len.pos, r.al)
    ELSE WitnessItem_push(r, read_vec(b, len.pos, len.v, lim))

\* `for _ in 0..count`: count passes of the body, ended by the first error.
\* The passes are composed half by half, so that 255 of them nest 8 deep.
RECURSIVE dec_WitnessItems(_, _, _, _)
dec_WitnessItems(b, lim, count, r) ==
    IF count = 0 \/ r.st # "ok" THEN r
    ELSE IF count = 1 THEN WitnessItem_read(b, lim, r, dec_CompactSize(b, r.pos))
    ELSE dec_WitnessItems(b, lim, count - (count \div 2),
                          dec_WitnessItems(b, lim, count \div 2, r))

Witness_items(b, lim, count) ==
    IF count.st # "ok" THEN count
    ELSE dec_WitnessItems(b, lim, count.v, DecOk(<<>>, count.pos, <<>>))

\* A slip: the count read as a CompactSize.
dec_Witness_compact(b, p, lim) ==
    Witness_items(b, lim, MapOk(dec_CompactSize(b, p), ToInt))

\* Witness: a single count byte, then that many length-prefixed items.
dec_Witness(b, p, lim) == Witness_items(b, lim, dec_u8(b, p))

-----------------------------------------------------------------------------
(* Test cases.  A constructed Transaction (public fields set directly), a  *)
(* byte string laid out by the wire grammar, or a hand-made hostile one.   *)

MaxInputs == 2

MaxOutputs == 2

SeqsUpTo(S, n) == UNION {[1..k -> S] : k \in 0..n}

\* 32 distinct identifier bytes.
WTxid == [i \in 1..32 |-> 100 + i]

\* Constructed transactions.
CScripts == {<<>>, <<"a", "b">>, <<"A", "B">>, <<"0", "g">>, <<"a">>}

CTxIns ==
    {[previous_txid |-> WTxid, previous_vout |-> <<0, 1>>, script_sig |-> sc,
      sequence |-> <<65535, 65534>>, witness |-> WitnessNew] : sc \in CScripts}

CTxOuts ==
    {[amount |-> <<0, 1, 0, 5>>, script_pubkey |-> <<"5", "1">>],
     [amount |-> <<0, 0, 0, 0>>, script_pubkey |-> <<>>]}

CTxs ==
    {[version |-> v, inputs |-> ins, outputs |-> outs, lock_time |-> <<7, 65534>>] :
        v \in {<<0, 1>>, <<65535, 65535>>},
        ins \in SeqsUpTo(CTxIns, MaxInputs),
        outs \in SeqsUpTo(CTxOuts, MaxOutputs)}

\* Wire shapes: the bytes of each field, written out by hand.
WVersion == <<2, 0, 0, 0>>

WVout == <<1, 0, 0, 0>>

WSequence == <<254, 255, 255, 255>>

WLockTime == <<9, 0, 1, 0>>

WAmount == <<16, 39, 0, 0, 1, 0, 0, 0>>

WOutScript == <<81>>

WScripts == {<<>>, <<171, 205>>}

WWits == {<<>>, << <<>>, <<1, 2>> >>}

WForms == {"min", "fd", "ff"}

\* A size n < 253 in the narrowest form or in a wider one.
WSize(n, form) ==
    CASE form = "min" -> <<n>>
      [] form = "fd" -> <<253, n, 0>>
      [] form = "fe" -> <<254, n, 0, 0, 0>>
      [] OTHER -> <<255, n, 0, 0, 0, 0, 0, 0, 0>>

RECURSIVE WConcat(_)
WConcat(ss) == IF ss = <<>> THEN <<>> ELSE Head(ss) \o WConcat(Tail(ss))

WInput(in, form) ==
    WTxid \o WVout \o WSize(Len(in.script), form) \o in.script \o WSequence

WOutput(form) == WAmount \o WSize(Len(WOutScript), form) \o WOutScript

WInputList(ins, form) ==
    WSize(Len(ins), form) \o WConcat([i \in 1..Len(ins) |-> WInput(ins[i], form)])

WOutputList(n, form) ==
    WSize(n, form) \o WConcat([i \in 1..n |-> WOutput(form)])

WWitness(wit, wform) ==
    <<Len(wit)>> \o
    WConcat([i \in 1..Len(wit) |-> WSize(Len(wit[i]), wform) \o wit[i]])

WWitnesses(ins, wform) ==
    WConcat([i \in 1..Len(ins) |-> WWitness(ins[i].wit, wform)])

\* Transaction := version inputs outputs lockTime, without marker or witnesses.
WLegacy(sh, form) ==
    WVersion \o WInputList(sh.ins, form) \o WOutputList(sh.nouts, form) \o WLockTime

\* The record as the wire grammar lays it out, before trailing bytes.
WRecord(sh) ==
    IF sh.segwit
    THEN WVersion \o WSize(0, sh.form) \o <<sh.flag>> \o
         WInputList(sh.ins, sh.form) \o WOutputList(sh.nouts, sh.form) \o
         WWitnesses(sh.ins, sh.wform) \o WLockTime
    ELSE WLegacy(sh, sh.form)

Wire(sh) == WRecord(sh) \o sh.extra

SegwitInputs == {[script |-> sc, wit |-> w] : sc \in WScripts, w \in WWits}

LegacyInputs == {[script |-> sc, wit |-> <<>>] : sc \in WScripts}

Shape(sw, fl, ins, n, form, wform, extra) ==
    [segwit |-> sw, flag |-> fl, ins |-> ins, nouts |-> n,
     form |-> form, wform |-> wform, extra |-> extra]

\* Complete records, in every form, with and without trailing bytes.
CompleteShapes ==
    {Shape(TRUE, 1, ins, n, f, wf, x) :
        ins \in SeqsUpTo(SegwitInputs, MaxInputs), n \in 0..MaxOutputs,
        f \in WForms, wf \in {"min", "fd"}, x \in {<<>>, <<153>>}}
    \cup
    {Shape(FALSE, 1, ins, n, f, "min", x) :
        ins \in SeqsUpTo(LegacyInputs, MaxInputs) \ {<<>>}, n \in 0..MaxOutputs,
        f \in WForms, x \in {<<>>, <<153>>}}

\* A zero input count followed by a flag byte other than 1.
BadFlags == {0, 2, 128, 255}

BadFlagShapes ==
    {Shape(TRUE, fl, ins, 1, f, "min", <<>>) :
        fl \in BadFlags, ins \in SeqsUpTo(SegwitInputs, 1), f \in WForms}

\* Records in the narrowest form, to be cut short at every length: each input
\* either carries a script and a witness or carries neither, and the output
\* list is empty or full.
CutInputs == {[script |-> <<171, 205>>, wit |-> << <<>>, <<1, 2>> >>],
              [script |-> <<>>, wit |-> <<>>]}

CutShapes ==
    {sh \in CompleteShapes :
        /\ sh.form = "min" /\ sh.wform = "min" /\ sh.extra = <<>>
        /\ sh.nouts \in {0, MaxOutputs}
        /\ \A i \in 1..Len(sh.ins) : sh.segwit => sh.ins[i] \in CutInputs}

\* Hostile byte strings: a size prefix far beyond the bytes that follow.
HugeSizes ==
    {<<5>>, <<253, 255, 255>>, <<254, 0, 0, 0, 1>>, <<254, 255, 255, 255, 255>>,
     <<255, 0, 0, 0, 0, 0, 0, 0, 1>>, <<255, 255, 255, 255, 255, 255, 255, 255, 255>>}

HostilePrefixes ==
    {WVersion,                                              \* input count
     WVersion \o <<1>> \o WTxid \o WVout,                   \* script_sig length
     WVersion \o <<1>> \o WInput([script |-> <<>>], "min"), \* output count
     WVersion \o <<1>> \o WInput([script |-> <<>>], "min") \o <<1>> \o WAmount,
     WVersion \o <<0, 1>>,                                  \* segwit input count
     WVersion \o <<0, 1, 1>> \o WInput([script |-> <<>>], "min") \o <<0, 1>>}

RawBytes ==
    {<<0>>, <<>>} \cup {pre \o sz \o <<1, 2>> : pre \in HostilePrefixes, sz \in HugeSizes}

\* A segwit record with one input, no output and a witness section whose count
\* byte is c: the item 07, then c - 1 empty items.
StackCounts == {3, 253, 254, 255}

WStackHead == WVersion \o <<0, 1, 1>> \o WInput([script |-> <<>>], "min") \o <<0>>

WStackRecord(c) ==
    WStackHead \o <<c>> \o <<1, 7>> \o [i \in 1..(c - 1) |-> 0] \o WLockTime

NoTx == [version |-> <<0, 0>>, inputs |-> <<>>, outputs |-> <<>>, lock_time |-> <<0, 0>>]

NoShape == Shape(FALSE, 0, <<>>, 0, "min", "min", <<>>)

TestCase(kind, tx, sh, bytes) == [kind |-> kind, tx |-> tx, shape |-> sh, bytes |-> bytes]

TestCases ==
    {TestCase("construct", tx, NoShape, <<>>) : tx \in CTxs}
    \cup {TestCase("wire", NoTx, sh, Wire(sh)) : sh \in CompleteShapes \cup BadFlagShapes}
    \cup UNION {{TestCase("cut", NoTx, sh, SubSeq(WRecord(sh), 1, k)) :
                    k \in 0..(Len(WRecord(sh)) - 1)} : sh \in CutShapes}
    \cup {TestCase("raw", NoTx, NoShape, b) : b \in RawBytes}
    \cup {TestCase("stack", NoTx, NoShape, WStackRecord(c)) : c \in StackCounts}

\* 16 MiB, and 64 GiB.
MemLimits == {<<0, 0, 256, 0>>, <<0, 16, 0, 0>>}

-----------------------------------------------------------------------------
(* Transaction::consensus_decode as a state machine over one cursor, then  *)
(* Transaction::txid on the record it returned.                            *)

NoCS == [phase |-> "off", v |-> U64Zero, pre |-> <<>>, tail |-> <<>>, w |-> <<>>,
         n |-> 0, dec |-> DecFail("none", 0, <<>>)]

NoResult == [kind |-> "none", flag |-> -1]

\* Nothing rendered, transaction_decoder_20 not running.
NoJson == <<>>

NoD20 == [pc |-> "off", hex |-> <<>>, bytes |-> <<>>, pos |-> 0, todo |-> U64Zero,
          version |-> <<0, 0>>, inputs |-> <<>>, outputs |-> <<>>,
          lock_time |-> <<0, 0>>, result |-> "none", whole |-> <<>>]

Init ==
    /\ tc \in TestCases
    /\ buf = tc.bytes
    /\ pos = 0
    /\ pc = IF tc.kind = "construct" THEN "encode" ELSE "version"
    /\ memLimit \in (IF tc.kind = "raw" THEN MemLimits ELSE {<<0, 16, 0, 0>>})
    /\ version = <<0, 0>>
    /\ inputs = <<>>
    /\ outputs = <<>>
    /\ lock_time = <<0, 0>>
    /\ flag = -1
    /\ path = "none"
    /\ todo = U64Zero
    /\ widx = 1
    /\ result = NoResult
    /\ allocs = <<>>
    /\ txid_data = <<>>
    /\ cs = NoCS
    /\ reads = <<>>
    /\ txid = NoTxid
    /\ json = NoJson
    /\ d20 = NoD20

\* The record assembled from the fields decoded so far.
Tx == [version |-> version, inputs |-> inputs, outputs |-> outputs,
       lock_time |-> lock_time]

\* An error (or panic) ends the call: `?` returns at once.
Stop(kind, fl, p, al) ==
    /\ result' = [kind |-> kind, flag |-> fl]
    /\ pc' = "done"
    /\ pos' = p
    /\ allocs' = allocs \o al

\* Legacy encode of a constructed Transaction: version, inputs, outputs, lock_time.
EncodeTx ==
    /\ pc = "encode"
    /\ \E r \in {txid_encode(tc.tx)} :
           IF r.st = "ok"
           THEN /\ buf' = r.w
                /\ pc' = "version"
                /\ UNCHANGED result
           ELSE /\ buf' = buf
                /\ pc' = "done"
                /\ result' = [kind |-> "encode_panic", flag |-> -1]
    /\ UNCHANGED <<tc, pos, memLimit, version, inputs, outputs, lock_time, flag,
                   path, todo, widx, allocs, txid_data, cs, reads, txid, json, d20>>

\* let version = Version::consensus_decode(r)?;
DecodeVersion ==
    /\ pc = "version"
    /\ \E r \in {dec_Version(buf, pos)} :
           IF r.st = "ok"
           THEN /\ version' = r.v
                /\ pos' = r.pos
                /\ pc' = "inputs_len"
                /\ UNCHANGED <<result, allocs>>
           ELSE /\ Stop(r.st, -1, r.pos, r.al)
                /\ UNCHANGED version
    /\ UNCHANGED <<tc, buf, memLimit, inputs, outputs, lock_time, flag, path,
                   todo, widx, txid_data, cs, txid, json, d20>>
    /\ reads' = Append(reads, [step |-> pc, from |-> pos, to |-> pos'])

\* A slip: the marker byte read behind every first input list.
AfterInputs_marker(p, ins) ==
    IF p = "segwit" THEN "outputs_len" ELSE "flag"

\* Where consensus_decode goes once a Vec<TxIn> is complete.
AfterInputs(p, ins) ==
    IF p = "segwit" THEN "outputs_len"
    ELSE IF Len(ins) = 0 THEN "flag" ELSE "outputs_len"

PathAfterInputs(p, ins) ==
    IF p = "segwit" THEN "segwit"
    ELSE IF Len(ins) = 0 THEN "none" ELSE "legacy"

\* Vec<TxIn>: the CompactSize count and Vec::with_capacity(len as usize).
DecodeInputsLen ==
    /\ pc = "inputs_len"
    /\ \E len \in {dec_CompactSize(buf, pos)} :
           IF len.st # "ok"
           THEN /\ Stop(len.st, -1, len.pos, <<>>)
                /\ UNCHANGED <<todo, path, inputs>>
           ELSE \E cap \in {with_capacity(len.v, SizeOfTxIn, Len(buf) - len.pos, memLimit)} :
                    IF cap.st # "ok"
                    THEN /\ Stop(cap.st, -1, len.pos, cap.al)
                         /\ UNCHANGED <<todo, path, inputs>>
                    ELSE /\ todo' = len.v
                         /\ inputs' = <<>>
                         /\ pos' = len.pos
                         /\ allocs' = allocs \o cap.al
                         /\ pc' = IF len.v = U64Zero THEN AfterInputs(path, <<>>)
                                  ELSE "inputs_item"
                         /\ path' = IF len.v = U64Zero THEN PathAfterInputs(path, <<>>)
                                    ELSE path
                         /\ UNCHANGED result
    /\ UNCHANGED <<tc, buf, memLimit, version, outputs, lock_time, flag, widx,
                   txid_data, cs, txid, json, d20>>
    /\ reads' = Append(reads, [step |-> pc, from |-> pos, to |-> pos'])

\* One iteration of `for _ in 0..len { ret.push(TxIn::consensus_decode(r)?) }`.
DecodeTxIn ==
    /\ pc = "inputs_item"
    /\ \E r \in {dec_TxIn(buf, pos, memLimit)} :
           IF r.st # "ok"
           THEN /\ Stop(r.st, -1, r.pos, r.al)
                /\ UNCHANGED <<todo, path, inputs>>
           ELSE /\ inputs' = Append(inputs, r.v)
                /\ todo' = U64Pred(todo)
                /\ pos' = r.pos
                /\ allocs' = allocs \o r.al
                /\ pc' = IF todo' = U64Zero THEN AfterInputs(path, inputs')
                         ELSE "inputs_item"
                /\ path' = IF todo' = U64Zero THEN PathAfterInputs(path, inputs')
                           ELSE path
                /\ UNCHANGED result
    /\ UNCHANGED <<tc, buf, memLimit, version, outputs, lock_time, flag, widx,
                   txid_data, cs, txid, json, d20>>
    /\ reads' = Append(reads, [step |-> pc, from |-> pos, to |-> pos'])


\* A slip: any flag with bit 0 or bit 1 set is taken for the witness scheme.
SegwitFlagArm_loose(x) == IF x % 4 # 0 THEN "segwit" ELSE "unsupported"

\* match segwit_flag { 1 => .., x => Err(Error::UnsupportedSegwitFlag(x)) }
SegwitFlagArm(x) == IF x = 1 THEN "segwit" ELSE "unsupported"

\* let segwit_flag = u8::consensus_decode(r)?; match segwit_flag { 1 => .., x => Err }
DecodeSegwitFlag ==
    /\ pc = "flag"
    /\ \E r \in {dec_u8(buf, pos)} :
           IF r.st # "ok"
           THEN /\ Stop(r.st, -1, r.pos, <<>>)
                /\ UNCHANGED <<flag, path>>
           ELSE IF SegwitFlagArm(r.v) = "segwit"
           THEN /\ flag' = r.v
                /\ path' = "segwit"
                /\ pos' = r.pos
                /\ pc' = "inputs_len"
                /\ UNCHANGED <<result, allocs>>
           ELSE /\ Stop("flag", r.v, r.pos, <<>>)
                /\ flag' = r.v
                /\ UNCHANGED path
    /\ UNCHANGED <<tc, buf, memLimit, version, inputs, outputs, lock_time, todo,
                   widx, txid_data, cs, txid, json, d20>>
    /\ reads' = Append(reads, [step |-> pc, from |-> pos, to |-> pos'])

\* Where consensus_decode goes once the Vec<TxOut> is complete.
AfterOutputs(p, ins) ==
    IF p = "legacy" THEN "lock_time"
    ELSE IF Len(ins) = 0 THEN "check" ELSE "witness"

\* Vec<TxOut>: the CompactSize count and Vec::with_capacity(len as usize).
DecodeOutputsLen ==
    /\ pc = "outputs_len"
    /\ \E len \in {dec_CompactSize(buf, pos)} :
           IF len.st # "ok"
           THEN /\ Stop(len.st, -1, len.pos, <<>>)
                /\ UNCHANGED <<todo, outputs>>
           ELSE \E cap \in {with_capacity(len.v, SizeOfTxOut, Len(buf) - len.pos, memLimit)} :
                    IF cap.st # "ok"
                    THEN /\ Stop(cap.st, -1, len.pos, cap.al)
                         /\ UNCHANGED <<todo, outputs>>
                    ELSE /\ todo' = len.v
                         /\ outputs' = <<>>
                         /\ pos' = len.pos
                         /\ allocs' = allocs \o cap.al
                         /\ pc' = IF len.v = U64Zero THEN AfterOutputs(path, inputs)
                                  ELSE "outputs_item"
                         /\ UNCHANGED result
    /\ UNCHANGED <<tc, buf, memLimit, version, inputs, lock_time, flag, path, widx,
                   txid_data, cs, txid, json, d20>>
    /\ reads' = Append(reads, [step |-> pc, from |-> pos, to |-> pos'])

\* One iteration of `for _ in 0..len { ret.push(TxOut::consensus_decode(r)?) }`.
DecodeTxOut ==
    /\ pc = "outputs_item"
    /\ \E r \in {dec_TxOut(buf, pos, memLimit)} :
           IF r.st # "ok"
           THEN /\ Stop(r.st, -1, r.pos, r.al)
                /\ UNCHANGED <<todo, outputs>>
           ELSE /\ outputs' = Append(outputs, r.v)
                /\ todo' = U64Pred(todo)
                /\ pos' = r.pos
                /\ allocs' = allocs \o r.al
                /\ pc' = IF todo' = U64Zero THEN AfterOutputs(path, inputs)
                         ELSE "outputs_item"
                /\ UNCHANGED result
    /\ UNCHANGED <<tc, buf, memLimit, version, inputs, lock_time, flag, path, widx,
                   txid_data, cs, txid, json, d20>>
    /\ reads' = Append(reads, [step |-> pc, from |-> pos, to |-> pos'])

\* One iteration of `for txin in inputs.iter_mut() { txin.witness = Witness::consensus_decode(r)? }`.
DecodeWitness ==
    /\ pc = "witness"
    /\ \E r \in {dec_Witness(buf, pos, memLimit)} :
           IF r.st # "ok"
           THEN /\ Stop(r.st, -1, r.pos, r.al)
                /\ UNCHANGED <<inputs, widx>>
           ELSE /\ inputs' = [inputs EXCEPT ![widx].witness = r.v]
                /\ widx' = widx + 1
                /\ pos' = r.pos
                /\ allocs' = allocs \o r.al
                /\ pc' = IF widx' > Len(inputs) THEN "check" ELSE "witness"
                /\ UNCHANGED result
    /\ UNCHANGED <<tc, buf, memLimit, version, outputs, lock_time, flag, path, todo,
                   txid_data, cs, txid, json, d20>>
    /\ reads' = Append(reads, [step |-> pc, from |-> pos, to |-> pos'])


\* A slip: the check left out.
NoWitnessPresent_never(ins) == FALSE

\* A slip: any() instead of all().
NoWitnessPresent_any(ins) ==
    /\ Len(ins) # 0
    /\ \E i \in 1..Len(ins) : witness_is_empty(ins[i].witness)

\* !inputs.is_empty() && inputs.iter().all(|input| input.witness.is_empty())
NoWitnessPresent(ins) ==
    /\ Len(ins) # 0
    /\ \A i \in 1..Len(ins) : witness_is_empty(ins[i].witness)

\* The check between the witness loop and lock_time on the segwit path.
CheckWitnesses ==
    /\ pc = "check"
    /\ IF NoWitnessPresent(inputs)
       THEN Stop("parse", -1, pos, <<>>)
       ELSE /\ pc' = "lock_time"
            /\ UNCHANGED <<result, pos, allocs>>
    /\ UNCHANGED <<tc, buf, memLimit, version, inputs, outputs, lock_time, flag,
                   path, todo, widx, txid_data, cs, txid, json, d20>>
    /\ reads' = Append(reads, [step |-> pc, from |-> pos, to |-> pos'])

\* lock_time: u32::consensus_decode(r)?, and Ok(Transaction { .. }).
DecodeLockTime ==
    /\ pc = "lock_time"
    /\ \E r \in {dec_u32(buf, pos)} :
           IF r.st # "ok"
           THEN /\ Stop(r.st, -1, r.pos, <<>>)
                /\ UNCHANGED lock_time
           ELSE /\ lock_time' = r.v
                /\ pos' = r.pos
                /\ pc' = "done"
                /\ result' = [kind |-> "ok", flag |-> -1]
                /\ UNCHANGED allocs
    /\ UNCHANGED <<tc, buf, memLimit, version, inputs, outputs, flag, path, todo,
                   widx, txid_data, cs, txid, json, d20>>
    /\ reads' = Append(reads, [step |-> pc, from |-> pos, to |-> pos'])

\* Transaction::txid on the returned record: the buffer handed to Txid::new.
ComputeTxid ==
    /\ pc = "done"
    /\ result.kind = "ok"
    /\ \E r \in {txid_encode(Tx)} :
           /\ txid_data' = r.w
           /\ txid' = Txid_of(r)
           /\ pc' = IF r.st = "ok" THEN "hashed" ELSE "txid_panic"
    /\ UNCHANGED <<tc, buf, pos, memLimit, version, inputs, outputs, lock_time,
                   flag, path, todo, widx, result, allocs, cs, reads, json, d20>>

\* serde's walk over the returned record: Serialize for Transaction.
SerializeTx ==
    /\ pc = "hashed"
    /\ json' = Serialize_Transaction(Tx)
    /\ pc' = "rendered"
    /\ UNCHANGED <<tc, buf, pos, memLimit, version, inputs, outputs, lock_time,
                   flag, path, todo, widx, result, allocs, txid_data, cs, reads,
                   txid, d20>>

Next ==
    \/ EncodeTx
    \/ DecodeVersion
    \/ DecodeInputsLen
    \/ DecodeTxIn
    \/ DecodeSegwitFlag
    \/ DecodeOutputsLen
    \/ DecodeTxOut
    \/ DecodeWitness
    \/ CheckWitnesses
    \/ DecodeLockTime
    \/ ComputeTxid
    \/ SerializeTx

Spec == Init /\ [][Next]_vars

-----------------------------------------------------------------------------
(* The CompactSize codec on its own: encode a value onto a writer, decode  *)
(* what was written; or decode bytes that no encoder wrote.                *)

CSLimbs == {0, 1, 252, 253, 255, 256, 65535}

CSValues == {<<a, b, c, d>> : a \in CSLimbs, b \in CSLimbs, c \in CSLimbs, d \in CSLimbs}
            \cup {<<0, 0, 0, 20000>>}

CSRawFull ==
    {<<0>>, <<1>>, <<252>>, <<253, 1, 0>>, <<253, 32, 78>>, <<253, 0, 0>>,
     <<253, 255, 255>>, <<253, 252, 0>>, <<254, 1, 0, 0, 0>>, <<254, 0, 0, 1, 0>>,
     <<254, 255, 255, 255, 255>>, <<255, 1, 0, 0, 0, 0, 0, 0, 0>>,
     <<255, 0, 0, 0, 0, 1, 0, 0, 0>>, <<255, 0, 0, 0, 0, 0, 0, 0, 1>>,
     <<255, 255, 255, 255, 255, 255, 255, 255, 255>>}

\* Every prefix of every raw encoding, the empty one included.
CSRaw == UNION {{SubSeq(b, 1, k) : k \in 0..Len(b)} : b \in CSRawFull}

CSTails == {<<>>, <<170, 1>>}

InitCS ==
    /\ cs \in {[phase |-> "value", v |-> v, pre |-> pre, tail |-> t, w |-> pre,
                n |-> 0, dec |-> DecFail("none", 0, <<>>)] :
                  v \in CSValues, pre \in {<<>>, <<7>>}, t \in CSTails}
          \cup {[phase |-> "bytes", v |-> U64Zero, pre |-> <<>>, tail |-> t, w |-> b,
                 n |-> 0, dec |-> DecFail("none", 0, <<>>)] :
                  b \in CSRaw, t \in CSTails}
    /\ tc = TestCase("cs", NoTx, NoShape, <<>>)
    /\ buf = <<>>
    /\ pos = 0
    /\ pc = "idle"
    /\ memLimit = <<0, 16, 0, 0>>
    /\ version = <<0, 0>>
    /\ inputs = <<>>
    /\ outputs = <<>>
    /\ lock_time = <<0, 0>>
    /\ flag = -1
    /\ path = "none"
    /\ todo = U64Zero
    /\ widx = 1
    /\ result = NoResult
    /\ allocs = <<>>
    /\ txid_data = <<>>
    /\ reads = <<>>
    /\ txid = NoTxid
    /\ json = NoJson
    /\ d20 = NoD20

TxVars == <<tc, buf, pos, pc, memLimit, version, inputs, outputs, lock_time,
            flag, path, todo, widx, result, allocs, txid_data, reads, txid, json>>

\* CompactSize(v).consensus_encode(&mut w) on a writer that already holds pre.
CSEncode ==
    /\ cs.phase = "value"
    /\ \E r \in {enc_CompactSize(cs.pre, cs.v)} :
           cs' = [cs EXCEPT !.phase = "encoded", !.w = r.w, !.n = r.n]
    /\ UNCHANGED <<TxVars, d20>>

\* CompactSize::consensus_decode on the bytes just written, followed by tail.
CSDecode ==
    /\ cs.phase = "encoded"
    /\ cs' = [cs EXCEPT !.phase = "decoded",
                        !.dec = dec_CompactSize(cs.w \o cs.tail, Len(cs.pre))]
    /\ UNCHANGED <<TxVars, d20>>

\* CompactSize::consensus_decode on bytes as they came, followed by tail.
CSDecodeRaw ==
    /\ cs.phase = "bytes"
    /\ cs' = [cs EXCEPT !.phase = "read", !.dec = dec_CompactSize(cs.w \o cs.tail, 0)]
    /\ UNCHANGED <<TxVars, d20>>

NextCS == CSEncode \/ CSDecode \/ CSDecodeRaw

SpecCS == InitCS /\ [][NextCS]_vars

-----------------------------------------------------------------------------
(* Claims about the CompactSize codec, checked under SpecCS.               *)

\* The bytes CompactSize::consensus_encode appended to the writer.
CSWritten == SubSeq(cs.w, Len(cs.pre) + 1, Len(cs.w))

\* C5: decoding the bytes CompactSize encode wrote for v returns v and
\* leaves the cursor right behind them (the bytes that follow stay unread),
\* for values in all four ranges.
C5_CompactSizeRoundTrip ==
    cs.phase = "decoded" =>
        /\ cs.dec.st = "ok"
        /\ cs.dec.v = cs.v
        /\ cs.dec.pos = Len(cs.w)
        /\ cs.dec.pos - Len(cs.pre) = cs.n

\* 4294967296 went through the 9-byte form and came back, with bytes behind it.
C5_Witness ==
    /\ cs.phase = "decoded"
    /\ cs.v = <<0, 1, 0, 0>>
    /\ cs.dec.v = <<0, 1, 0, 0>>
    /\ Len(CSWritten) = 9
    /\ cs.tail # <<>>

\* C6: CompactSize encode appends the narrowest of the four forms (the byte
\* itself up to 252, 0xFD + 2, 0xFE + 4, 0xFF + 8 little-endian bytes), leaves
\* what the writer held untouched, and returns the number of bytes appended.
C6_CompactSizeCanonical ==
    cs.phase \in {"encoded", "decoded"} =>
        LET v == cs.v
            lo(x) == x % 256
            hi(x) == x \div 256
        IN  /\ SubSeq(cs.w, 1, Len(cs.pre)) = cs.pre
            /\ cs.n = Len(CSWritten)
            /\ cs.n \in {1, 3, 5, 9}
            /\ IF v[1] = 0 /\ v[2] = 0 /\ v[3] = 0 /\ v[4] <= 252
               THEN CSWritten = <<v[4]>>
               ELSE IF v[1] = 0 /\ v[2] = 0 /\ v[3] = 0
               THEN CSWritten = <<253, lo(v[4]), hi(v[4])>>
               ELSE IF v[1] = 0 /\ v[2] = 0
               THEN CSWritten = <<254, lo(v[4]), hi(v[4]), lo(v[3]), hi(v[3])>>
               ELSE CSWritten = <<255, lo(v[4]), hi(v[4]), lo(v[3]), hi(v[3]),
                                  lo(v[2]), hi(v[2]), lo(v[1]), hi(v[1])>>

\* 65535, the largest value of the 3-byte form, was written after an earlier byte.
C6_Witness ==
    /\ cs.phase = "encoded"
    /\ cs.v = <<0, 0, 0, 65535>>
    /\ cs.pre = <<7>>
    /\ cs.w = <<7, 253, 255, 255>>
    /\ cs.n = 3

\* C7: CompactSize decode takes the branch its first byte names and returns the
\* little-endian value of the 0, 2, 4 or 8 bytes behind it without asking for
\* the narrowest form: FD 01 00 is 1 and FD 20 4E is 20000.
C7_CompactSizePermissive ==
    cs.phase = "read" =>
        LET b == cs.w \o cs.tail
            d == cs.dec
            w16(i) == b[i] + 256 * b[i + 1]
        IN  /\ Len(b) = 0 => d.st = "io"
            /\ Len(b) > 0 /\ b[1] <= 252 =>
                   d.st = "ok" /\ d.v = <<0, 0, 0, b[1]>> /\ d.pos = 1
            /\ Len(b) > 0 /\ b[1] = 253 =>
                   IF Len(b) >= 3
                   THEN d.st = "ok" /\ d.v = <<0, 0, 0, w16(2)>> /\ d.pos = 3
                   ELSE d.st = "io"
            /\ Len(b) > 0 /\ b[1] = 254 =>
                   IF Len(b) >= 5
                   THEN d.st = "ok" /\ d.v = <<0, 0, w16(4), w16(2)>> /\ d.pos = 5
                   ELSE d.st = "io"
            /\ Len(b) > 0 /\ b[1] = 255 =>
                   IF Len(b) >= 9
                   THEN d.st = "ok" /\ d.v = <<w16(8), w16(6), w16(4), w16(2)>> /\ d.pos = 9
                   ELSE d.st = "io"
            /\ cs.w = <<253, 1, 0>> => d.v = <<0, 0, 0, 1>>
            /\ cs.w = <<253, 32, 78>> => d.v = <<0, 0, 0, 20000>>

\* FD 01 00, which encode never writes for 1, was read as 1.
C7_Witness ==
    /\ cs.phase = "read"
    /\ cs.w = <<253, 1, 0>>
    /\ cs.dec.st = "ok"
    /\ cs.dec.v = <<0, 0, 0, 1>>
    /\ cs.dec.pos = 3

-----------------------------------------------------------------------------
(* Claims about Transaction::consensus_decode and Transaction::txid,       *)
(* checked under Spec.                                                     *)

\* consensus_decode has returned (or the process has died in it).
Returned == result.kind # "none"

\* Equal in version, inputs (witness aside), outputs and lock_time.
SameButWitness(t, u) ==
    /\ t.version = u.version
    /\ t.lock_time = u.lock_time
    /\ t.outputs = u.outputs
    /\ Len(t.inputs) = Len(u.inputs)
    /\ \A i \in 1..Len(t.inputs) :
          /\ t.inputs[i].previous_txid = u.inputs[i].previous_txid
          /\ t.inputs[i].previous_vout = u.inputs[i].previous_vout
          /\ t.inputs[i].script_sig = u.inputs[i].script_sig
          /\ t.inputs[i].sequence = u.inputs[i].sequence

\* A String holding an even number of lower-case hex digits.
LowerHex(str) ==
    /\ Len(str) % 2 = 0
    /\ \A i \in 1..Len(str) :
          str[i] \in {"0", "1", "2", "3", "4", "5", "6", "7", "8", "9",
                      "a", "b", "c", "d", "e", "f"}

ScriptsLowerHex(t) ==
    /\ \A i \in 1..Len(t.inputs) : LowerHex(t.inputs[i].script_sig)
    /\ \A i \in 1..Len(t.outputs) : LowerHex(t.outputs[i].script_pubkey)

\* C1 as stated: every constructed non-segwit Transaction whose encoding
\* yields bytes comes back from decode(encode(t)) equal to t in version, inputs
\* (witness aside), outputs and lock_time.
C1_Original ==
    tc.kind = "construct" /\ pc \in {"done", "hashed"} /\ result.kind # "encode_panic" =>
        result.kind = "ok" /\ SameButWitness(Tx, tc.tx)

\* C1 as amended: a constructed non-segwit Transaction with at least one input
\* whose script strings are even-length lower-case hex comes back from
\* decode(encode(t)), on the legacy path, equal to t in version, inputs
\* (witness aside), outputs and lock_time.
C1_LegacyRoundTrip ==
    tc.kind = "construct" /\ Len(tc.tx.inputs) > 0 /\ ScriptsLowerHex(tc.tx)
      /\ pc \in {"done", "hashed"} =>
        /\ result.kind = "ok"
        /\ path = "legacy"
        /\ pos = Len(buf)
        /\ SameButWitness(Tx, tc.tx)

\* Two inputs and two outputs went out and came back.
C1_Witness ==
    /\ tc.kind = "construct"
    /\ pc = "done"
    /\ result.kind = "ok"
    /\ Len(tc.tx.inputs) = 2
    /\ Len(tc.tx.outputs) = 2
    /\ tc.tx.inputs[1].script_sig = <<"a", "b">>
    /\ tc.tx.inputs[2].script_sig = <<>>
    /\ Tx.inputs[1].script_sig = <<"a", "b">>
    /\ Tx.version = <<65535, 65535>>

\* The layout C2 names, written out field by field.
RefLe16(x) == <<x % 256, x \div 256>>

RefLe32(x) == RefLe16(x[2]) \o RefLe16(x[1])

RefLe64(x) == RefLe16(x[4]) \o RefLe16(x[3]) \o RefLe16(x[2]) \o RefLe16(x[1])

RefSize(n) == IF n <= 252 THEN <<n>> ELSE <<253>> \o RefLe16(n)

RefScript(str) == RefSize(Len(str) \div 2) \o hex_decode(str).bytes

RefInput(in) ==
    in.previous_txid \o RefLe32(in.previous_vout) \o RefScript(in.script_sig)
    \o RefLe32(in.sequence)

RefOutput(out) == RefLe64(out.amount) \o RefScript(out.script_pubkey)

RefLayout(t) ==
    RefLe32(t.version)
    \o RefSize(Len(t.inputs)) \o WConcat([i \in 1..Len(t.inputs) |-> RefInput(t.inputs[i])])
    \o RefSize(Len(t.outputs)) \o WConcat([i \in 1..Len(t.outputs) |-> RefOutput(t.outputs[i])])
    \o RefLe32(t.lock_time)

\* C2: the buffer Transaction::txid hashes is version, the inputs in legacy
\* form (count; per input previous_txid, previous_vout, length-prefixed
\* script_sig, sequence), the outputs and lock_time, in that order, also for a
\* record from the segwit path: marker, flag and witness bytes are not in it.
C2_TxidPreimage ==
    pc = "hashed" =>
        /\ txid_data = RefLayout(Tx)
        /\ path = "segwit" => Len(txid_data) + 2 + Len(inputs) <= pos

\* The preimage of a segwit record with two inputs, one of them with a witness.
C2_Witness ==
    /\ pc = "hashed"
    /\ path = "segwit"
    /\ Len(inputs) = 2
    /\ inputs[1].witness = <<>>
    /\ inputs[2].witness = << <<>>, <<1, 2>> >>
    /\ txid_data = RefLayout(Tx)

\* The segwit path is past its witness loop and the check behind it.
WitnessesChecked ==
    /\ path = "segwit"
    /\ pc = "lock_time" \/ result.kind \in {"ok", "parse"}

AllWitnessesEmpty == \A i \in 1..Len(inputs) : inputs[i].witness = <<>>

\* C3 as stated: on the segwit path, once the witness sections are read, the
\* decoder fails with ParseFailed if every input's witness is empty, so every
\* Transaction returned from the segwit path, whatever the number of real
\* inputs, has an input with a non-empty witness.
C3_Original ==
    /\ WitnessesChecked /\ AllWitnessesEmpty => result.kind = "parse"
    /\ path = "segwit" /\ result.kind = "ok" => ~AllWitnessesEmpty

\* C3 as amended: on the segwit path, once the witness sections are read, the
\* decoder fails with ParseFailed if there is at least one real input and
\* every input's witness is empty, and for no other reason; so every
\* Transaction returned from the segwit path with at least one real input has
\* an input with a non-empty witness.
C3_SegwitGuard ==
    /\ WitnessesChecked /\ Len(inputs) > 0 /\ AllWitnessesEmpty => result.kind = "parse"
    /\ result.kind = "parse" => path = "segwit" /\ Len(inputs) > 0 /\ AllWitnessesEmpty
    /\ path = "segwit" /\ result.kind = "ok" /\ Len(inputs) > 0 => ~AllWitnessesEmpty

\* Two real inputs, two empty witness sections: ParseFailed.
C3_Witness ==
    /\ result.kind = "parse"
    /\ tc.kind = "wire"
    /\ Len(inputs) = 2
    /\ widx = 3
    /\ AllWitnessesEmpty

\* Where the marker byte of a wire test case ends.
MarkerEnd(sh) == 4 + Len(WSize(0, sh.form)) + 1

\* C4: a zero first input count followed by a marker byte b other than 1 ends
\* the call with UnsupportedSegwitFlag(b), the cursor right behind the marker,
\* and no Transaction (so none is ever hashed).
C4_UnsupportedFlag ==
    /\ tc.kind = "wire" /\ tc.shape.segwit /\ tc.shape.flag # 1 /\ Returned =>
          /\ result = [kind |-> "flag", flag |-> tc.shape.flag]
          /\ pos = MarkerEnd(tc.shape)
          /\ pc = "done"
          /\ txid_data = <<>>
    /\ result.kind = "flag" =>
          /\ result.flag # 1
          /\ buf[pos] = result.flag
          /\ inputs = <<>>
          /\ path = "none"
          /\ pc = "done"
    /\ pc = "hashed" => result.kind = "ok"

\* Marker 2 behind a zero count written in the 3-byte form.
C4_Witness ==
    /\ tc.kind = "wire"
    /\ tc.shape.form = "fd"
    /\ result = [kind |-> "flag", flag |-> 2]
    /\ pos = 8
    /\ Len(buf) > 8

\* C8 as stated: a byte string that ends before a required field is complete
\* makes consensus_decode return Error::Io, never a Transaction and never a
\* panic.
C8_Original ==
    tc.kind \in {"cut", "raw"} /\ Returned => result.kind = "io"

\* C9 as stated: every length or count taken from the input is checked against
\* the bytes left in the buffer before an allocation of that size is made, so
\* no request exceeds what remains.
C9_Original ==
    \A i \in 1..Len(allocs) :
        FitsInt(allocs[i].len) /\ ToInt(allocs[i].len) <= allocs[i].rem

\* C10 as stated: for a byte string S decoded on the segwit path, the legacy
\* encoding of the record differs from S, and equals S without marker, flag
\* and witness sections whenever S uses minimal-width size prefixes.
C10_Original ==
    tc.kind = "wire" /\ path = "segwit" /\ pc = "hashed" =>
        /\ txid_data # buf
        /\ tc.shape.form = "min" => txid_data = WLegacy(tc.shape, "min") \o tc.shape.extra

\* C10 as amended: for a byte string S decoded on the segwit path, the legacy
\* encoding of the record differs from S, and equals the part of S that ends
\* with lock_time, without marker, flag and witness sections, whenever S uses
\* minimal-width size prefixes.
C10_SegwitException ==
    tc.kind = "wire" /\ path = "segwit" /\ pc = "hashed" =>
        /\ txid_data # buf
        /\ Len(txid_data) < Len(WRecord(tc.shape))
        /\ tc.shape.form = "min" => txid_data = WLegacy(tc.shape, "min")

\* A minimal-form segwit record with two inputs, two outputs and a witness.
C10_Witness ==
    /\ tc.kind = "wire"
    /\ path = "segwit"
    /\ pc = "hashed"
    /\ tc.shape.form = "min"
    /\ tc.shape.extra = <<>>
    /\ Len(inputs) = 2
    /\ Len(outputs) = 2
    /\ ~AllWitnessesEmpty
    /\ txid_data = WLegacy(tc.shape, "min")

-----------------------------------------------------------------------------
(* Claims about the identifier and the presentation.                       *)

OtherWitnesses == {<<>>, << <<>>, <<9>> >>}

\* The records that agree with tx on everything but the witness stacks.
WitnessVariants(tx) ==
    {[tx EXCEPT !.inputs = [i \in 1..Len(tx.inputs) |->
                               [tx.inputs[i] EXCEPT !.witness = f[i]]]] :
        f \in [1..Len(tx.inputs) -> OtherWitnesses]}

\* C11: every record that agrees with the returned one on version, on each
\* input's previous_txid, previous_vout, script_sig and sequence, on outputs
\* and on lock_time has the identifier the first txid() call stored, whatever
\* its witness stacks hold, and the txid() call made while rendering returns
\* that identifier again.
C11_TxidWitnessFree ==
    pc \in {"hashed", "rendered"} =>
        /\ txid.st = "ok"
        /\ \A tx2 \in WitnessVariants(Tx) : Transaction_txid(tx2) = txid
        /\ pc = "rendered" => json[1].value = txid

\* A segwit record with a non-empty witness, hashed once and once more while
\* rendered.
C11_Witness ==
    /\ pc = "rendered"
    /\ path = "segwit"
    /\ Len(inputs) = 2
    /\ Len(inputs[1].witness) > 0
    /\ Tx \notin WitnessVariants(Tx)
    /\ json[1].value = txid
    /\ txid.id = Txid_new(txid_data)

\* The text expected for the identifier 65 66 .. 84 (hex) of the test inputs:
\* "8483..6665", written out digit by digit from the last byte to the first.
RefTxidText ==
    [k \in 1..64 |->
        LET byte == 133 - ((k + 1) \div 2)
        IN  HexLower[(IF k % 2 = 1 THEN byte \div 16 ELSE byte % 16) + 1]]

\* The rendered inputs of the field tree.
JsonInputs == json[3].value

\* C12: a Txid read from the wire is stored in wire order and encodes to the
\* same 32 bytes; its rendering is the hex of those bytes in reverse order;
\* after rendering the stored bytes are what they were, so encoding them,
\* hashing the record and rendering again give what they gave before.
C12_TxidByteOrder ==
    pc = "rendered" =>
        \A i \in 1..Len(inputs) :
            /\ inputs[i].previous_txid = WTxid
            /\ enc_Txid(<<>>, inputs[i].previous_txid).w = WTxid
            /\ JsonInputs[i][1] = [name |-> "txid", value |-> RefTxidText]
            /\ Serialize_TxIn(inputs[i]) = JsonInputs[i]
            /\ Transaction_txid(Tx) = txid

\* A record with two inputs read from the wire and rendered.
C12_Witness ==
    /\ pc = "rendered"
    /\ tc.kind = "wire"
    /\ Len(inputs) = 2
    /\ JsonInputs[2][1].value = RefTxidText
    /\ RefTxidText # hex_encode(WTxid)

\* C13 as stated: the legacy encode of every Transaction, decoded or built
\* from its public fields, returns Ok, and txid() never panics.
C13_Original ==
    /\ result.kind # "encode_panic"
    /\ pc # "txid_panic"
    /\ pc \in {"hashed", "rendered"} => txid.st = "ok"

\* The field names of one rendered input, in the order they were emitted.
FieldNames(tree) == [k \in 1..Len(tree) |-> tree[k].name]

\* C14: every rendered input has exactly four fields: txid, vout, sequence
\* and one of scriptSig / txinwitness; it has txinwitness and no scriptSig
\* exactly when the input's witness stack is non-empty, scriptSig and no
\* txinwitness exactly when it is empty.
C14_TxInPresentation ==
    pc = "rendered" =>
        /\ Len(JsonInputs) = Len(inputs)
        /\ \A i \in 1..Len(inputs) :
              LET names == FieldNames(JsonInputs[i])
                  has(n) == \E k \in 1..Len(names) : names[k] = n
              IN  /\ Len(names) = 4
                  /\ has("txid") /\ has("vout") /\ has("sequence")
                  /\ has("txinwitness") <=> Len(inputs[i].witness) > 0
                  /\ has("scriptSig") <=> Len(inputs[i].witness) = 0
                  /\ has("scriptSig") <=> ~has("txinwitness")

\* A rendered segwit record whose first input carries a witness and whose
\* second carries none.
C14_Witness ==
    /\ pc = "rendered"
    /\ path = "segwit"
    /\ Len(inputs) = 2
    /\ Len(inputs[1].witness) = 2
    /\ Len(inputs[2].witness) = 0
    /\ FieldNames(JsonInputs[1]) = <<"txid", "vout", "txinwitness", "sequence">>
    /\ FieldNames(JsonInputs[2]) = <<"txid", "vout", "scriptSig", "sequence">>
    /\ JsonInputs[1][3].value = << <<>>, <<"0", "1", "0", "2">> >>

-----------------------------------------------------------------------------
(* transaction_decoder_20/src/lib.rs: the reader functions built on        *)
(* Read::read, and run() as the sequence of its reads.  The byte slice's   *)
(* read copies the bytes that are left, at most as many as the buffer      *)
(* holds, and returns Ok with their number; the functions drop the number. *)

\* transaction_bytes.read(&mut buffer) with a zero-filled buffer of n bytes.
slice_read(b, p, n) ==
    DecOk([i \in 1..n |-> IF p + i <= Len(b) THEN b[p + i] ELSE 0],
          IF p + n <= Len(b) THEN p + n ELSE Len(b), <<>>)

read_u32(b, p) == MapOk(slice_read(b, p, 4), u32_from_le_bytes)

\* Amount::from_sat(u64::from_le_bytes(buffer))
read_amount(b, p) == MapOk(slice_read(b, p, 8), u64_from_le_bytes)

read_compact_size_match(b, n) ==
    IF n.st # "ok" THEN n
    ELSE IF n.v = 255 THEN MapOk(slice_read(b, n.pos, 8), u64_from_le_bytes)
    ELSE IF n.v = 254 THEN
        MapOk(MapOk(slice_read(b, n.pos, 4), u32_from_le_bytes), u32_as_u64)
    ELSE IF n.v = 253 THEN
        MapOk(MapOk(slice_read(b, n.pos, 2), u16_from_le_bytes), u16_as_u64)
    ELSE DecOk(u8_as_u64(n.v), n.pos, <<>>)

read_compact_size(b, p) ==
    read_compact_size_match(b, MapOk(slice_read(b, p, 1), FirstByte))

\* The 32 bytes handed to Txid::from_bytes.
read_txid(b, p) == slice_read(b, p, 32)

\* vec![0_u8; script_size], read, hex::encode.
read_script_fill(b, lim, size) ==
    IF size.st # "ok" THEN size
    ELSE IF AllocOutcome(size.v, SizeOfU8, lim) # "ok"
    THEN DecFail(AllocOutcome(size.v, SizeOfU8, lim), size.pos, <<>>)
    ELSE MapOk(slice_read(b, size.pos, ToInt(size.v)), hex_encode)

read_script(b, p, lim) == read_script_fill(b, lim, read_compact_size(b, p))

\* Complete legacy records whose inputs carry a script, and every prefix of them.
Run20Shapes ==
    {sh \in CompleteShapes :
        /\ ~sh.segwit /\ sh.form = "min" /\ sh.extra = <<>>
        /\ \A i \in 1..Len(sh.ins) : sh.ins[i].script # <<>>}

Run20Inputs ==
    UNION {{[hex |-> hex_encode(SubSeq(WRecord(sh), 1, k)), whole |-> WRecord(sh)] :
               k \in 0..Len(WRecord(sh))} : sh \in Run20Shapes}
    \cup {[hex |-> h, whole |-> <<>>] : h \in {<<"0", "g">>, <<"a", "b", "c">>}}

Init20 ==
    /\ d20 \in {[NoD20 EXCEPT !.pc = "hex", !.hex = in.hex, !.whole = in.whole] :
                   in \in Run20Inputs}
    /\ cs = NoCS
    /\ tc = TestCase("run20", NoTx, NoShape, <<>>)
    /\ buf = <<>>
    /\ pos = 0
    /\ pc = "idle"
    /\ memLimit = <<0, 0, 256, 0>>
    /\ version = <<0, 0>>
    /\ inputs = <<>>
    /\ outputs = <<>>
    /\ lock_time = <<0, 0>>
    /\ flag = -1
    /\ path = "none"
    /\ todo = U64Zero
    /\ widx = 1
    /\ result = NoResult
    /\ allocs = <<>>
    /\ txid_data = <<>>
    /\ reads = <<>>
    /\ txid = NoTxid
    /\ json = NoJson

\* `?` on a failed read, or a panic: run() ends there.
Run20Stop(st) == d20' = [d20 EXCEPT !.pc = "done", !.result = st]

\* hex::decode(raw_transaction_hex).map_err(..)?
Run20HexDecode ==
    /\ d20.pc = "hex"
    /\ \E b \in {hex_decode(d20.hex)} :
           IF b.ok THEN d20' = [d20 EXCEPT !.pc = "version", !.bytes = b.bytes]
           ELSE Run20Stop("hex_error")
    /\ UNCHANGED <<TxVars, cs>>

\* let version = read_u32(&mut bytes_slice)?;
Run20Version ==
    /\ d20.pc = "version"
    /\ \E r \in {read_u32(d20.bytes, d20.pos)} :
           IF r.st # "ok" THEN Run20Stop(r.st)
           ELSE d20' = [d20 EXCEPT !.pc = "inputs_len", !.version = r.v, !.pos = r.pos]
    /\ UNCHANGED <<TxVars, cs>>

\* let input_length = read_compact_size(&mut bytes_slice)?;
Run20InputsLen ==
    /\ d20.pc = "inputs_len"
    /\ \E r \in {read_compact_size(d20.bytes, d20.pos)} :
           IF r.st # "ok" THEN Run20Stop(r.st)
           ELSE d20' = [d20 EXCEPT !.pc = IF r.v = U64Zero THEN "outputs_len"
                                          ELSE "input",
                                   !.todo = r.v, !.pos = r.pos]
    /\ UNCHANGED <<TxVars, cs>>

\* One iteration of the input loop: read_txid, read_u32, read_script, read_u32, push.
Run20Input ==
    /\ d20.pc = "input"
    /\ \E r1 \in {read_txid(d20.bytes, d20.pos)} :
       \E r2 \in {read_u32(d20.bytes, r1.pos)} :
       \E r3 \in {read_script(d20.bytes, r2.pos, memLimit)} :
           IF r3.st # "ok" THEN Run20Stop(r3.st)
           ELSE \E r4 \in {read_u32(d20.bytes, r3.pos)} :
               d20' = [d20 EXCEPT
                         !.inputs = Append(@, [txid |-> r1.v, output_index |-> r2.v,
                                               script |-> r3.v, sequence |-> r4.v]),
                         !.todo = U64Pred(@),
                         !.pos = r4.pos,
                         !.pc = IF U64Pred(d20.todo) = U64Zero THEN "outputs_len"
                                ELSE "input"]
    /\ UNCHANGED <<TxVars, cs>>

\* let output_length = read_compact_size(&mut bytes_slice)?;
Run20OutputsLen ==
    /\ d20.pc = "outputs_len"
    /\ \E r \in {read_compact_size(d20.bytes, d20.pos)} :
           IF r.st # "ok" THEN Run20Stop(r.st)
           ELSE d20' = [d20 EXCEPT !.pc = IF r.v = U64Zero THEN "lock_time"
                                          ELSE "output",
                                   !.todo = r.v, !.pos = r.pos]
    /\ UNCHANGED <<TxVars, cs>>

\* One iteration of the output loop: read_amount, read_script, push.
Run20Output ==
    /\ d20.pc = "output"
    /\ \E r1 \in {read_amount(d20.bytes, d20.pos)} :
       \E r2 \in {read_script(d20.bytes, r1.pos, memLimit)} :
           IF r2.st # "ok" THEN Run20Stop(r2.st)
           ELSE d20' = [d20 EXCEPT
                          !.outputs = Append(@, [amount |-> r1.v, script_pubkey |-> r2.v]),
                          !.todo = U64Pred(@),
                          !.pos = r2.pos,
                          !.pc = IF U64Pred(d20.todo) = U64Zero THEN "lock_time"
                                 ELSE "output"]
    /\ UNCHANGED <<TxVars, cs>>

\* let lock_time = read_u32(&mut bytes_slice)?; .. Ok(serde_json::to_string_pretty(..)?)
Run20LockTime ==
    /\ d20.pc = "lock_time"
    /\ \E r \in {read_u32(d20.bytes, d20.pos)} :
           IF r.st # "ok" THEN Run20Stop(r.st)
           ELSE d20' = [d20 EXCEPT !.pc = "done", !.result = "ok", !.lock_time = r.v,
                                   !.pos = r.pos]
    /\ UNCHANGED <<TxVars, cs>>

Next20 ==
    \/ Run20HexDecode
    \/ Run20Version
    \/ Run20InputsLen
    \/ Run20Input
    \/ Run20OutputsLen
    \/ Run20Output
    \/ Run20LockTime

Spec20 == Init20 /\ [][Next20]_vars

-----------------------------------------------------------------------------
(* Claims about transaction_decoder_20, checked under Spec20.              *)

\* Fewer bytes are left in the slice than a field of n bytes needs.
Short20(n) == Len(d20.bytes) - d20.pos < n

\* C15 as stated: with fewer bytes left than the field needs, read_u32,
\* read_amount, read_txid, read_compact_size and read_script return an error,
\* and run() on a truncated transaction returns an error, never a decoded
\* transaction.
C15_Original ==
    /\ d20.pc \notin {"off", "hex"} =>
          /\ Short20(4) => read_u32(d20.bytes, d20.pos).st # "ok"
          /\ Short20(8) => read_amount(d20.bytes, d20.pos).st # "ok"
          /\ Short20(32) => read_txid(d20.bytes, d20.pos).st # "ok"
          /\ Short20(1) => read_compact_size(d20.bytes, d20.pos).st # "ok"
          /\ Short20(1) => read_script(d20.bytes, d20.pos, memLimit).st # "ok"
    /\ d20.pc = "done" /\ Len(d20.bytes) < Len(d20.whole) => d20.result # "ok"

-----------------------------------------------------------------------------
(* Claims about the order and the cursor of Transaction::consensus_decode, *)
(* stated over the history of its read steps.                              *)

\* The marker byte has been read at or before step i.
FlagReadBy(i) == \E k \in 1..i : reads[k].step = "flag"

\* The place of step i in ReadVersion -> ReadInputsOrMarker -> LegacyPath |
\* SegwitPath -> ReadLockTime: 1 version, 2-3 first input list, 4 marker,
\* 5-6 real input list, 7-8 output list, 9 witness sections, 10 the witness
\* check, 11 lock_time.
Rank(i) ==
    CASE reads[i].step = "version" -> 1
      [] reads[i].step = "inputs_len" -> IF FlagReadBy(i) THEN 5 ELSE 2
      [] reads[i].step = "inputs_item" -> IF FlagReadBy(i) THEN 6 ELSE 3
      [] reads[i].step = "flag" -> 4
      [] reads[i].step = "outputs_len" -> 7
      [] reads[i].step = "outputs_item" -> 8
      [] reads[i].step = "witness" -> 9
      [] reads[i].step = "check" -> 10
      [] reads[i].step = "lock_time" -> 11
      [] OTHER -> 0

\* Step b may directly follow step a.
Follows(a, b, segwit) ==
    \/ a = 1 /\ b = 2
    \/ a = 2 /\ b \in {3, 4}
    \/ a = 3 /\ b \in {3, 7}
    \/ a = 4 /\ b = 5
    \/ a = 5 /\ b \in {6, 7}
    \/ a = 6 /\ b \in {6, 7}
    \/ a \in {7, 8} /\ b = 8
    \/ a \in {7, 8} /\ b = 11 /\ ~segwit
    \/ a \in {7, 8} /\ b \in {9, 10} /\ segwit
    \/ a = 9 /\ b \in {9, 10}
    \/ a = 10 /\ b = 11

\* C16: version is read first, the input list next; a non-empty list is
\* followed by the output list with no marker byte read; an empty one by
\* exactly one marker byte, the real input list, the output list and the
\* witness sections; lock_time is the last field read; each step starts where
\* the one before ended and the cursor never moves back.
C16_DecodeOrder ==
    /\ reads # <<>> => reads[1].step = "version" /\ reads[1].from = 0
    /\ \A i \in 1..Len(reads) :
          /\ reads[i].from <= reads[i].to
          /\ reads[i].step = "flag" => reads[i].to <= reads[i].from + 1
          /\ reads[i].step = "lock_time" => i = Len(reads)
          /\ i > 1 => /\ reads[i].from = reads[i - 1].to
                      /\ Follows(Rank(i - 1), Rank(i), FlagReadBy(i))
    /\ Cardinality({i \in 1..Len(reads) : reads[i].step = "flag"}) <= 1
    /\ path = "legacy" => ~FlagReadBy(Len(reads))
    /\ path = "segwit" => FlagReadBy(Len(reads))
    /\ result.kind = "ok" => reads[Len(reads)].step = "lock_time"
    /\ Len(reads) > 0 => pos = reads[Len(reads)].to

\* A segwit record with two inputs and two outputs, every phase passed.
C16_Witness ==
    /\ result.kind = "ok"
    /\ [i \in 1..Len(reads) |-> reads[i].step] =
         <<"version", "inputs_len", "flag", "inputs_len", "inputs_item",
           "inputs_item", "outputs_len", "outputs_item", "outputs_item",
           "witness", "witness", "check", "lock_time">>
    /\ reads[3].to = reads[3].from + 1
    /\ pos = Len(buf)

\* The steps of the history that read a witness section / part of the output list.
WitnessSteps == {i \in 1..Len(reads) : reads[i].step = "witness"}

OutputSteps == {i \in 1..Len(reads) : reads[i].step \in {"outputs_len", "outputs_item"}}

\* The witness loop has run to its end.
WitnessLoopDone == \E i \in 1..Len(reads) : reads[i].step = "check"

\* C17: on the segwit path one witness section is read per real input, after
\* the whole output list, and the i-th section goes to the i-th input with its
\* items in stream order; the count of a section is one raw byte, so FD, FE
\* and FF stand for 253, 254 and 255 items; inputs decoded on the legacy path
\* have an empty witness.
C17_WitnessAssignment ==
    /\ \A i \in WitnessSteps : \A j \in OutputSteps : j < i
    /\ Cardinality(WitnessSteps) <= Len(inputs)
    /\ WitnessLoopDone => Cardinality(WitnessSteps) = Len(inputs)
    /\ tc.kind = "wire" /\ WitnessLoopDone =>
          \A i \in 1..Len(inputs) : inputs[i].witness = tc.shape.ins[i].wit
    /\ tc.kind = "stack" /\ Returned =>
          /\ result.kind = "ok"
          /\ Len(inputs[1].witness) = buf[Len(WStackHead) + 1]
          /\ inputs[1].witness[1] = <<7>>
          /\ \A k \in 2..Len(inputs[1].witness) : inputs[1].witness[k] = <<>>
          /\ pos = Len(buf)
    /\ path # "segwit" => \A i \in 1..Len(inputs) : inputs[i].witness = <<>>

\* A witness section whose count byte is FD: 253 items are read.
C17_Witness ==
    /\ tc.kind = "stack"
    /\ result.kind = "ok"
    /\ buf[Len(WStackHead) + 1] = 253
    /\ Len(inputs[1].witness) = 253

\* The steps that are one pass of the input, output or witness loop.
LoopSteps == {i \in 1..Len(reads) :
                 reads[i].step \in {"inputs_item", "outputs_item", "witness"}}

\* C18 as stated: consensus_decode ends, with a Transaction or an error, after
\* a number of read steps bounded by the input length; every pass of the
\* input, output and witness loops consumes at least one byte or fails; a
\* count or length prefix larger than the bytes that remain leads at once to
\* the truncation error.
C18_Original ==
    /\ Len(reads) <= Len(buf) + 2
    /\ \A i \in LoopSteps :
          reads[i].from < reads[i].to \/ (i = Len(reads) /\ Returned /\ result.kind # "ok")
    /\ Returned => result.kind \in {"ok", "io", "parse", "flag", "encode_panic"}
    /\ tc.kind = "raw" /\ Returned => result.kind = "io"

\* Decoder result r, started at the cursor, has moved it by n bytes if it succeeded.
Advanced(r, n) == r.st = "ok" => r.pos = pos + n

\* The width of the size prefix that starts with the byte first.
PrefixWidth(first) ==
    IF first = 255 THEN 9 ELSE IF first = 254 THEN 5 ELSE IF first = 253 THEN 3 ELSE 1

\* What a complete record of shape sh decodes to, trailing bytes or not.
ExpectedKind(sh) ==
    IF sh.segwit /\ sh.ins # <<>> /\ \A i \in 1..Len(sh.ins) : sh.ins[i].wit = <<>>
    THEN "parse" ELSE "ok"

\* C19: a successful primitive decode moves the cursor by its width (1, 2, 4,
\* 8 or 32 bytes), a successful length-prefixed read by the width of the prefix
\* plus the length it declares; after a successful consensus_decode the cursor
\* stands exactly behind the record's wire layout, and bytes that follow
\* lock_time stay unread and cause no error.
C19_CursorEffect ==
    /\ Advanced(dec_u8(buf, pos), 1)
    /\ Advanced(dec_u16(buf, pos), 2)
    /\ Advanced(dec_u32(buf, pos), 4)
    /\ Advanced(dec_u64(buf, pos), 8)
    /\ Advanced(dec_Txid(buf, pos), 32)
    /\ dec_CompactSize(buf, pos).st = "ok" =>
          Advanced(dec_CompactSize(buf, pos), PrefixWidth(buf[pos + 1]))
    /\ dec_String(buf, pos, memLimit).st = "ok" =>
          /\ ToInt(dec_CompactSize(buf, pos).v) * 2 = Len(dec_String(buf, pos, memLimit).v)
          /\ Advanced(dec_String(buf, pos, memLimit),
                      PrefixWidth(buf[pos + 1]) + ToInt(dec_CompactSize(buf, pos).v))
    /\ tc.kind = "wire" /\ result.kind = "ok" =>
          /\ pos = Len(WRecord(tc.shape))
          /\ SubSeq(buf, pos + 1, Len(buf)) = tc.shape.extra
    /\ tc.kind = "wire" /\ tc.shape.flag = 1 /\ Returned =>
          result.kind = ExpectedKind(tc.shape)
    /\ tc.kind = "stack" /\ result.kind = "ok" => pos = Len(buf)

\* A segwit record with two inputs and one byte behind lock_time, decoded.
C19_Witness ==
    /\ tc.kind = "wire"
    /\ result.kind = "ok"
    /\ path = "segwit"
    /\ Len(inputs) = 2
    /\ tc.shape.extra = <<153>>
    /\ pos = Len(buf) - 1
    /\ reads[Len(reads)].to = reads[Len(reads)].from + 4

\* Where the witness sections of a record of shape sh end and lock_time begins.
WitnessEnd(sh) == Len(WRecord(sh)) - Len(WLockTime)

\* C20: on the segwit path the all-witnesses-empty check runs behind the last
\* witness section and before lock_time is read: a record with marker 1, at
\* least one real input and only empty witnesses whose lock_time is missing
\* or cut short fails with ParseFailed, not with the truncation error, while a
\* record cut inside the input list, the output list or a witness section
\* fails with the truncation error before the check is reached.
C20_ErrorPrecedence ==
    /\ result.kind = "parse" =>
          /\ reads[Len(reads)].step = "check"
          /\ Cardinality(WitnessSteps) = Len(inputs)
          /\ \A i \in 1..Len(reads) : reads[i].step # "lock_time"
          /\ pos = WitnessEnd([tc.shape EXCEPT !.extra = <<>>])
    /\ tc.kind = "cut" /\ tc.shape.segwit /\ Returned =>
          IF Len(buf) < WitnessEnd(tc.shape)
          THEN result.kind = "io" /\ ~WitnessLoopDone
          ELSE /\ WitnessLoopDone
               /\ result.kind = IF ExpectedKind(tc.shape) = "parse" THEN "parse" ELSE "io"

\* Two real inputs with empty witnesses and a lock_time two bytes long.
C20_Witness ==
    /\ tc.kind = "cut"
    /\ tc.shape.segwit
    /\ Len(inputs) = 2
    /\ Len(buf) = WitnessEnd(tc.shape) + 2
    /\ result.kind = "parse"
    /\ pos = Len(buf) - 2

\* Where the count and length prefixes of the bytes read so far begin: the
\* two counts, and behind previous_txid and previous_vout or behind amount.
PrefixOffsets ==
    {reads[i].from : i \in {k \in 1..Len(reads) :
                               reads[k].step \in {"inputs_len", "outputs_len"}}}
    \cup {reads[i].from + 36 : i \in {k \in 1..Len(reads) :
                                         reads[k].step = "inputs_item"}}
    \cup {reads[i].from + 8 : i \in {k \in 1..Len(reads) :
                                        reads[k].step = "outputs_item"}}

\* The prefix at offset p takes the width CompactSize's encoder gives its value.
PrefixMinimal(p) ==
    \E r \in {dec_CompactSize(buf, p)} :
        /\ r.st = "ok"
        /\ r.pos - p = enc_CompactSize(<<>>, r.v).n

MinimalPrefixes == \A p \in PrefixOffsets : PrefixMinimal(p)

\* C21: when bytes decoded on the legacy path have every count and length
\* prefix in its narrowest form and nothing behind lock_time, the legacy
\* encoding of the decoded record, which is the txid preimage, is those bytes
\* again; with a wider prefix or with trailing bytes it differs from them.
C21_CanonicalReencoding ==
    pc \in {"hashed", "rendered"} /\ path = "legacy" =>
        /\ result.kind = "ok"
        /\ txid.st = "ok"
        /\ txid.id = Txid_new(txid_data)
        /\ txid_data = txid_encode(Tx).w
        /\ MinimalPrefixes /\ pos = Len(buf) => txid_data = buf
        /\ ~MinimalPrefixes \/ pos < Len(buf) =>
              /\ txid_data # buf
              /\ Len(txid_data) < Len(buf)
        /\ MinimalPrefixes <=> txid_data = SubSeq(buf, 1, pos)
        /\ tc.kind = "wire" =>
              /\ ~tc.shape.segwit
              /\ MinimalPrefixes <=> tc.shape.form = "min"
              /\ pos = Len(buf) <=> tc.shape.extra = <<>>

\* A laid-out legacy record with two scripted inputs and two outputs, all
\* prefixes one byte wide and nothing behind lock_time, re-encoded.
C21_Witness ==
    /\ pc = "hashed"
    /\ path = "legacy"
    /\ tc.kind = "wire"
    /\ Len(inputs) = 2
    /\ \A i \in 1..2 : inputs[i].script_sig # <<>>
    /\ Len(outputs) = 2
    /\ MinimalPrefixes
    /\ pos = Len(buf)
    /\ txid_data = buf

=============================================================================
